---- MODULE Spec2Model ----
(***************************************************************************)
(* Model of the batch ingestion and merge pipeline of the repository:      *)
(*   - DataIngestion.ingest / DataIngestion.run                            *)
(*       (src/data-ingestion/data_ingestion.py)                            *)
(*   - read_jsonl, load_metadata, build_merged_record,                     *)
(*     merge_reviews_with_metadata (src/data/data.py)                      *)
(*                                                                         *)
(*   - DataIngestion.load_jsonl / DataIngestion.transform                  *)
(*                                                                         *)
(* The specifications of the module:                                       *)
(*   SpecIngest  the batched writer with its retry loop, and run()'s       *)
(*               handling of its outcome;                                  *)
(*   SpecMeta    load_metadata applied to a metadata stream;               *)
(*   SpecMerge   merge_reviews_with_metadata, one loop iteration a step;   *)
(*   SpecRead    read_jsonl applied to a file;                             *)
(*   SpecLoad    DataIngestion.__init__ from load_jsonl on;                *)
(*   SpecTransform  DataIngestion.transform applied to product_data.       *)
(***************************************************************************)
EXTENDS Integers, Sequences, FiniteSets, TLC

VARIABLES
    \* ---- DataIngestion.ingest / run ----
    documents,                \* the documents handed to ingest
    batch_size,               \* config ingestion.batch_size
    max_retries,              \* config ingestion.max_retries
    backoff_initial_seconds,  \* config ingestion.backoff_initial_seconds
    ing_pc,                   \* FOR | ATTEMPTING | RETRY_WAIT | FAILED | RETURNED
    start_index,              \* the for loop's variable
    batch,                    \* documents[start_index : start_index + batch_size]
    attempt,                  \* failed attempts of the current batch
    backoff,                  \* the next sleep's duration
    inserted_ids,             \* the cumulative id list
    calls,                    \* every add_documents call made, in order
    sleeps,                   \* every time.sleep made, in order
    ingest_result,            \* what ingest returned to its caller, if it did
    run_pc,                   \* run(): ingest | done | raised
    \* ---- load_metadata / merge_reviews_with_metadata ----
    metadata_file,            \* the lines of the metadata JSONL file
    reviews_file,             \* the lines of the reviews JSONL file
    output_json,              \* whether a JSON array path was given
    output_jsonl,             \* whether a JSONL sink path was given
    sample_limit,             \* NoLimit or Limit(n)
    mpc,                      \* position in merge_reviews_with_metadata
    meta_index,               \* product id -> metadata record
    rev_pos,                  \* lines of reviews_file the reader has consumed
    reviews_read,             \* reviews the reader has yielded (enumerate's count)
    record,                   \* the record built from the current review
    merged_records,
    processed_count,
    skipped_count,
    jsonl_fp,                 \* None | open | closed
    jsonl_lines,              \* what has been written to the JSONL sink
    json_array,               \* the array written to the JSON file, if it was
    merge_exc,                \* the exception in flight, or None
    merge_result,             \* what the merge returned, if it did
    \* ---- read_jsonl on its own ----
    read_file,                \* the lines of the file handed to read_jsonl
    read_pc,                  \* reading | done
    read_yielded,             \* the values yielded, in order
    read_warnings,            \* the line numbers warned about, in order
    \* ---- DataIngestion.__init__ / load_jsonl / transform ----
    jsonl_input,              \* the lines of the configured JSONL file
    di_pc,                    \* load_jsonl | loaded | constructed | raised | done
    product_data,             \* self.product_data
    ingestion_limit,          \* config ingestion.limit: NoLimit or Limit(n)
    shuffle,                  \* config ingestion.shuffle
    shuffled,                 \* transform's data after the optional shuffle
    data,                     \* transform's data after the optional cap
    empty_skipped,
    t_documents               \* the documents transform returned

ingestVars == <<documents, batch_size, max_retries, backoff_initial_seconds,
                ing_pc, start_index, batch, attempt, backoff, inserted_ids,
                calls, sleeps, ingest_result, run_pc>>

mergeVars == <<metadata_file, reviews_file, output_json, output_jsonl,
               sample_limit, mpc, meta_index, rev_pos, reviews_read, record,
               merged_records, processed_count, skipped_count, jsonl_fp,
               jsonl_lines, json_array, merge_exc, merge_result>>

readVars == <<read_file, read_pc, read_yielded, read_warnings>>

pipeVars == <<jsonl_input, di_pc, product_data, ingestion_limit, shuffle, shuffled, data,
              empty_skipped, t_documents>>

vars == <<ingestVars, mergeVars, readVars, pipeVars>>

\* ------------------------------------------------------------------ bounds

MaxDocs == 4
MaxBatch == 3
MaxRetries == 2
MaxMetaLines == 3
MaxReviews == 3
MaxLimit == 2
MaxReadLines == 3
MaxLoadLines == 3
MaxEntries == 3

\* Values of ingestion.backoff_initial_seconds tried, in seconds.
BackoffInitials == {0, 1, 8, 20, 40}

\* ----------------------------------------------------------------- helpers

\* Python's None.
None == "<None>"

Min(a, b) == IF a <= b THEN a ELSE b

CeilDiv(a, b) == (a + b - 1) \div b

RECURSIVE Flatten(_)
Flatten(ss) == IF ss = <<>> THEN <<>> ELSE Head(ss) \o Flatten(Tail(ss))

\* What a function has handed back to its caller: nothing yet (or never, when
\* it raised), or a value.
NoResult == [returned |-> FALSE, value |-> <<>>]

Returned(v) == [returned |-> TRUE, value |-> v]

\* ------------------------------------------------- DataIngestion.ingest

\* min(backoff * 2, 30)'s cap.
BackoffCap == 30

\* documents[start : start + size]
BatchShort(docs, start, size) ==
    SubSeq(docs, start + 1, Min(start + size - 1, Len(docs)))

Batch(docs, start, size) ==
    SubSeq(docs, start + 1, Min(start + size, Len(docs)))

\* if attempt > max_retries: raise
RetryBudgetOffByOne(n, budget) == n >= budget

RetryBudgetLate(n, budget) == n > budget + 1

RetryBudgetExceeded(n, budget) == n > budget

\* backoff = min(backoff * 2, 30)
NextBackoffLinear(b) == Min(b + b \div 2, BackoffCap)

NextBackoff(b) == Min(b * 2, BackoffCap)

\* inserted_ids.extend(batch_ids)
ExtendIdsReplace(ids, batch_ids) == batch_ids

ExtendIds(ids, batch_ids) == ids \o batch_ids

\* The ids the vector store assigns to the documents of its n-th call.
AssignedIds(n, docs) == [j \in 1..Len(docs) |-> <<n, docs[j]>>]

\* ------------------------------------------------------- src/data/data.py

\* Product identifiers, and what a record's asin or parent_asin may hold:
\* nothing, the empty string, or an identifier.
Ids == {"A1", "A2"}

IdentValues == {None, ""} \cup Ids

\* Python's truthiness of an identifier value.
Truthy(v) == v # None /\ v # ""

\* a or b
Or(a, b) == IF Truthy(a) THEN a ELSE b

\* A line of a JSONL file: blank (empty or whitespace), malformed (json.loads
\* raises), nonobj (valid JSON that is no object, so it has no .get), or an
\* object with its asin and parent_asin.
Line(k, p, a) == [kind |-> k, parent_asin |-> p, asin |-> a]

BlankLine == Line("blank", None, None)

MalformedLine == Line("malformed", None, None)

NonObjLine == Line("nonobj", None, None)

MetaLines == {BlankLine, MalformedLine, NonObjLine}
                 \cup {Line("obj", p, a) : p \in IdentValues, a \in IdentValues}

ReviewLines == {BlankLine, MalformedLine, NonObjLine}
                   \cup {Line("obj", None, a) : a \in IdentValues}

FilesOf(lines, maxLen) == UNION {[1..n -> lines] : n \in 0..maxLen}

\* json.loads(line) of line n: the parsed value. The line number stands for
\* the fields of the object that play no part in the join (title, text, ...).
Parsed(file, n) == [line |-> n, kind |-> file[n].kind,
                    parent_asin |-> file[n].parent_asin, asin |-> file[n].asin]

\* read_jsonl yields line n: it is not blank after strip() and it parses.
YieldsUntilMalformed(file, n) ==
    /\ file[n].kind \in {"obj", "nonobj"}
    /\ \A m \in 1..n : file[m].kind # "malformed"

Yields(file, n) == file[n].kind \in {"obj", "nonobj"}

\* The first line after pos that read_jsonl yields, 0 at the end of the file.
NextYield(file, pos) ==
    LET later == {n \in (pos + 1)..Len(file) : Yields(file, n)}
    IN IF later = {} THEN 0 ELSE CHOOSE n \in later : \A m \in later : n <= m

\* Everything read_jsonl yields from the file, in order.
RECURSIVE ReadJsonlFrom(_, _)
ReadJsonlFrom(file, pos) ==
    LET n == NextYield(file, pos)
    IN IF n = 0 THEN <<>> ELSE <<Parsed(file, n)>> \o ReadJsonlFrom(file, n)

ReadJsonl(file) == ReadJsonlFrom(file, 0)

\* meta.get("parent_asin") or meta.get("asin")
MetaKeyAsinFirst(meta) == Or(meta.asin, meta.parent_asin)

MetaKey(meta) == Or(meta.parent_asin, meta.asin)

EmptyIndex == [k \in {} |-> k]

\* product_id_to_meta[asin] = meta
IndexPutIfAbsent(index, k, meta) ==
    [x \in DOMAIN index \cup {k} |-> IF x \in DOMAIN index THEN index[x] ELSE meta]

IndexPut(index, k, meta) ==
    [x \in DOMAIN index \cup {k} |-> IF x = k THEN meta ELSE index[x]]

\* load_metadata's loop over what read_jsonl yields. A value that is no
\* object has no .get: the AttributeError leaves load_metadata.
RECURSIVE LoadMetadataFrom(_, _)
LoadMetadataFrom(metas, index) ==
    IF metas = <<>> THEN [raised |-> FALSE, index |-> index]
    ELSE LET meta == Head(metas) IN
         IF meta.kind = "nonobj" THEN [raised |-> TRUE, index |-> index]
         ELSE IF ~Truthy(MetaKey(meta)) THEN LoadMetadataFrom(Tail(metas), index)
         ELSE LoadMetadataFrom(Tail(metas), IndexPut(index, MetaKey(meta), meta))

LoadMetadata(file) == LoadMetadataFrom(ReadJsonl(file), EmptyIndex)

\* build_merged_record: product_id, and the review and metadata the other
\* fields are projected from.
BuildMergedRecord(review, meta) ==
    [product_id |-> Or(review.asin, Or(meta.parent_asin, meta.asin)),
     review |-> review.line,
     meta |-> meta.line]

\* sample_limit: None, or an integer.
NoLimit == [set |-> FALSE, value |-> 0]

Limit(n) == [set |-> TRUE, value |-> n]

\* sample_limit is not None and len(merged_records) >= sample_limit
LimitReached(limit, records) == limit.set /\ Len(records) >= limit.value

\* ---------------------------------------- read_jsonl's warnings

\* The line numbers read_jsonl warns about: json.loads raised on the line.
RECURSIVE WarningsFrom(_, _)
WarningsFrom(file, pos) ==
    IF pos >= Len(file) THEN <<>>
    ELSE (IF file[pos + 1].kind = "malformed" THEN <<pos + 1>> ELSE <<>>)
             \o WarningsFrom(file, pos + 1)

Warnings(file) == WarningsFrom(file, 0)

\* ---------------------------- DataIngestion.load_jsonl and transform

\* A title or text of an entry: null (or missing), or a string, held as its
\* characters.
Null == [null |-> TRUE, chars |-> <<>>]

Str(cs) == [null |-> FALSE, chars |-> cs]

\* The titles and texts tried: missing, empty, whitespace only, and text with
\* whitespace around it.
TitleValues == {Null, Str(<<" ">>), Str(<<"a">>)}

TextValues == {Str(<<>>), Str(<<" ">>), Str(<<"b", " ">>)}

\* A line of the ingestion's JSONL file, and the lines tried.
EntryLine(k, t, x) == [kind |-> k, title |-> t, text |-> x]

LoadLines == {EntryLine("blank", Null, Null), EntryLine("malformed", Null, Null)}
                 \cup {EntryLine("obj", t, x) : t \in TitleValues, x \in TextValues}

\* json.loads(line) of line n of the ingestion's file.
Entry(n, t, x) == [src |-> n, title |-> t, text |-> x]

\* [json.loads(line) for line in f]: json.loads raises on the first line that
\* is blank or malformed, and the exception leaves load_jsonl.
LoadJsonl(file) ==
    IF \E n \in 1..Len(file) : file[n].kind # "obj"
    THEN [raised |-> TRUE, rows |-> <<>>]
    ELSE [raised |-> FALSE,
          rows |-> [n \in 1..Len(file) |-> Entry(n, file[n].title, file[n].text)]]

\* row.get(key) or ""
OrEmpty(f) == IF f.null THEN <<>> ELSE f.chars

IsSpace(ch) == ch \in {" ", "\n"}

\* str.strip()
RECURSIVE LStrip(_)
LStrip(cs) == IF cs # <<>> /\ IsSpace(Head(cs)) THEN LStrip(Tail(cs)) ELSE cs

RECURSIVE RStrip(_)
RStrip(cs) == IF cs # <<>> /\ IsSpace(cs[Len(cs)])
              THEN RStrip(SubSeq(cs, 1, Len(cs) - 1)) ELSE cs

Strip(cs) == RStrip(LStrip(cs))

\* page_content = f"{title}\n\n{review_text}".strip() if title else review_text
PageContentNoStrip(row) ==
    LET title == Strip(OrEmpty(row.title))
        review_text == OrEmpty(row.text)
    IN IF title # <<>> THEN title \o <<"\n", "\n">> \o review_text
       ELSE review_text

PageContent(row) ==
    LET title == Strip(OrEmpty(row.title))
        review_text == Strip(OrEmpty(row.text))
    IN IF title # <<>> THEN Strip(title \o <<"\n", "\n">> \o review_text)
       ELSE review_text

\* random.shuffle(data): the orders it may leave the list in.
Orders(n) == {f \in [1..n -> 1..n] : \A i, j \in 1..n : f[i] = f[j] => i = j}

Reordered(rows, f) == [i \in 1..Len(rows) |-> rows[f[i]]]

\* if isinstance(limit, int) and limit > 0: data = data[:limit]
CapNonNegative(rows, lim) ==
    IF lim.set /\ lim.value >= 0
    THEN SubSeq(rows, 1, Min(lim.value, Len(rows))) ELSE rows

Cap(rows, lim) ==
    IF lim.set /\ lim.value > 0
    THEN SubSeq(rows, 1, Min(lim.value, Len(rows))) ELSE rows

\* The two loops of transform: the rows whose page_content is not empty become
\* documents, in order; the others are counted in empty_skipped.
Document(row) == [page_content |-> PageContent(row), src |-> row.src]

RECURSIVE Documents(_)
Documents(rows) ==
    IF rows = <<>> THEN <<>>
    ELSE (IF PageContent(Head(rows)) = <<>> THEN <<>> ELSE <<Document(Head(rows))>>)
             \o Documents(Tail(rows))

RECURSIVE EmptySkipped(_)
EmptySkipped(rows) ==
    IF rows = <<>> THEN 0
    ELSE (IF PageContent(Head(rows)) = <<>> THEN 1 ELSE 0) + EmptySkipped(Tail(rows))

\* read_jsonl, the pipeline's constructor and transform while another
\* component is being run.
ReadIdle ==
    /\ read_file = <<>>
    /\ read_pc = "idle"
    /\ read_yielded = <<>>
    /\ read_warnings = <<>>

TransformFresh ==
    /\ shuffled = <<>>
    /\ data = <<>>
    /\ empty_skipped = 0
    /\ t_documents = NoResult

PipeIdle ==
    /\ jsonl_input = <<>>
    /\ di_pc = "idle"
    /\ product_data = <<>>
    /\ ingestion_limit = NoLimit
    /\ shuffle = FALSE
    /\ TransformFresh

\* The ingestion side while another component is being run.
IngestIdle ==
    /\ documents = <<>>
    /\ batch_size = 1
    /\ max_retries = 0
    /\ backoff_initial_seconds = 0
    /\ ing_pc = "idle"
    /\ start_index = 0
    /\ batch = <<>>
    /\ attempt = 0
    /\ backoff = 0
    /\ inserted_ids = <<>>
    /\ calls = <<>>
    /\ sleeps = <<>>
    /\ ingest_result = NoResult
    /\ run_pc = "idle"

\* The locals of merge_reviews_with_metadata as it starts.
MergeFresh ==
    /\ meta_index = EmptyIndex
    /\ rev_pos = 0
    /\ reviews_read = 0
    /\ record = None
    /\ merged_records = <<>>
    /\ processed_count = 0
    /\ skipped_count = 0
    /\ jsonl_fp = None
    /\ jsonl_lines = <<>>
    /\ json_array = NoResult
    /\ merge_exc = None
    /\ merge_result = NoResult

\* The merge side while another component is being run.
MergeIdle ==
    /\ metadata_file = <<>>
    /\ reviews_file = <<>>
    /\ output_json = FALSE
    /\ output_jsonl = FALSE
    /\ sample_limit = NoLimit
    /\ mpc = "idle"
    /\ MergeFresh

\* ingest has built the vector store and read its configuration, and is about
\* to enter the for loop.
InitIngest ==
    /\ \E n \in 0..MaxDocs : documents = [i \in 1..n |-> i]
    /\ batch_size \in 1..MaxBatch
    /\ max_retries \in 0..MaxRetries
    /\ backoff_initial_seconds \in BackoffInitials
    /\ ing_pc = "FOR"
    /\ start_index = 0
    /\ batch = <<>>
    /\ attempt = 0
    /\ backoff = backoff_initial_seconds
    /\ inserted_ids = <<>>
    /\ calls = <<>>
    /\ sleeps = <<>>
    /\ ingest_result = NoResult
    /\ run_pc = "ingest"
    /\ MergeIdle
    /\ ReadIdle
    /\ PipeIdle

\* for start_index in range(0, total, batch_size): the next batch starts.
ForNextNoReset ==
    /\ ing_pc = "FOR"
    /\ start_index < Len(documents)
    /\ batch' = Batch(documents, start_index, batch_size)
    /\ ing_pc' = "ATTEMPTING"
    /\ UNCHANGED <<documents, batch_size, max_retries, backoff_initial_seconds,
                   start_index, attempt, backoff, inserted_ids, calls, sleeps,
                   ingest_result, run_pc>>
    /\ UNCHANGED <<mergeVars, readVars, pipeVars>>

ForNext ==
    /\ ing_pc = "FOR"
    /\ start_index < Len(documents)
    /\ batch' = Batch(documents, start_index, batch_size)
    /\ attempt' = 0
    /\ backoff' = backoff_initial_seconds
    /\ ing_pc' = "ATTEMPTING"
    /\ UNCHANGED <<documents, batch_size, max_retries, backoff_initial_seconds,
                   start_index, inserted_ids, calls, sleeps, ingest_result, run_pc>>
    /\ UNCHANGED <<mergeVars, readVars, pipeVars>>

\* The range is exhausted: return vectorStore, inserted_ids.
ForEnd ==
    /\ ing_pc = "FOR"
    /\ start_index >= Len(documents)
    /\ ingest_result' = Returned(inserted_ids)
    /\ ing_pc' = "RETURNED"
    /\ UNCHANGED <<documents, batch_size, max_retries, backoff_initial_seconds,
                   start_index, batch, attempt, backoff, inserted_ids, calls,
                   sleeps, run_pc>>
    /\ UNCHANGED <<mergeVars, readVars, pipeVars>>

\* vectorStore.add_documents(batch) returns; the ids are accumulated; break.
WriteOk ==
    /\ ing_pc = "ATTEMPTING"
    /\ LET batch_ids == AssignedIds(Len(calls) + 1, batch) IN
        /\ calls' = Append(calls, [start |-> start_index, docs |-> batch,
                                   ok |-> TRUE, ids |-> batch_ids])
        /\ inserted_ids' = ExtendIds(inserted_ids, batch_ids)
    /\ start_index' = start_index + batch_size
    /\ ing_pc' = "FOR"
    /\ UNCHANGED <<documents, batch_size, max_retries, backoff_initial_seconds,
                   batch, attempt, backoff, sleeps, ingest_result, run_pc>>
    /\ UNCHANGED <<mergeVars, readVars, pipeVars>>

\* vectorStore.add_documents(batch) raises: count the attempt, then either
\* re-raise or go on to sleep.
WriteFail ==
    /\ ing_pc = "ATTEMPTING"
    /\ calls' = Append(calls, [start |-> start_index, docs |-> batch,
                               ok |-> FALSE, ids |-> <<>>])
    /\ attempt' = attempt + 1
    /\ ing_pc' = IF RetryBudgetExceeded(attempt', max_retries)
                 THEN "FAILED" ELSE "RETRY_WAIT"
    /\ UNCHANGED <<documents, batch_size, max_retries, backoff_initial_seconds,
                   start_index, batch, backoff, inserted_ids, sleeps,
                   ingest_result, run_pc>>
    /\ UNCHANGED <<mergeVars, readVars, pipeVars>>

\* time.sleep(backoff); backoff = min(backoff * 2, 30); back to the try.
Sleep ==
    /\ ing_pc = "RETRY_WAIT"
    /\ sleeps' = Append(sleeps, [start |-> start_index, dur |-> backoff])
    /\ backoff' = NextBackoff(backoff)
    /\ ing_pc' = "ATTEMPTING"
    /\ UNCHANGED <<documents, batch_size, max_retries, backoff_initial_seconds,
                   start_index, batch, attempt, inserted_ids, calls,
                   ingest_result, run_pc>>
    /\ UNCHANGED <<mergeVars, readVars, pipeVars>>

\* run(): ingest raised; log and re-raise.
RunReraiseSwallow ==
    /\ run_pc = "ingest"
    /\ ing_pc = "FAILED"
    /\ run_pc' = "done"
    /\ UNCHANGED <<documents, batch_size, max_retries, backoff_initial_seconds,
                   ing_pc, start_index, batch, attempt, backoff, inserted_ids,
                   calls, sleeps, ingest_result>>
    /\ UNCHANGED <<mergeVars, readVars, pipeVars>>

RunReraise ==
    /\ run_pc = "ingest"
    /\ ing_pc = "FAILED"
    /\ run_pc' = "raised"
    /\ UNCHANGED <<documents, batch_size, max_retries, backoff_initial_seconds,
                   ing_pc, start_index, batch, attempt, backoff, inserted_ids,
                   calls, sleeps, ingest_result>>
    /\ UNCHANGED <<mergeVars, readVars, pipeVars>>

\* run(): ingest returned; the similarity search is tried and its failure is
\* only logged, so run ends normally either way.
RunSmokeTest ==
    /\ run_pc = "ingest"
    /\ ing_pc = "RETURNED"
    /\ run_pc' = "done"
    /\ UNCHANGED <<documents, batch_size, max_retries, backoff_initial_seconds,
                   ing_pc, start_index, batch, attempt, backoff, inserted_ids,
                   calls, sleeps, ingest_result>>
    /\ UNCHANGED <<mergeVars, readVars, pipeVars>>

NextIngest ==
    \/ ForNext
    \/ ForEnd
    \/ WriteOk
    \/ WriteFail
    \/ Sleep
    \/ RunReraise
    \/ RunSmokeTest

SpecIngest == InitIngest /\ [][NextIngest]_vars

\* ingest and run are sequential code on one thread: whatever step is next is
\* taken, the write returning or raising.
SpecIngestFair == SpecIngest /\ WF_vars(NextIngest)

\* --------------------------------------------------------- load_metadata

\* The metadata files tried by the merge: an empty one; one product keyed by
\* its parent_asin, with another asin; two products around a blank line; a
\* duplicate around a malformed line; a file that makes load_metadata raise.
MergeMetaFiles ==
    { <<>>,
      <<Line("obj", "A1", "A2")>>,
      <<Line("obj", "", "A1"), BlankLine, Line("obj", "A2", None)>>,
      <<Line("obj", "A1", None), MalformedLine, Line("obj", None, "A1")>>,
      <<Line("obj", None, "A2"), NonObjLine>> }

\* The lines of the reviews files tried by the merge.
MergeReviewLines == {MalformedLine, NonObjLine}
                        \cup {Line("obj", None, a) : a \in IdentValues}

\* load_metadata is about to be called on a metadata file.
InitMeta ==
    /\ IngestIdle
    /\ ReadIdle
    /\ PipeIdle
    /\ metadata_file \in FilesOf(MetaLines, MaxMetaLines)
    /\ reviews_file = <<>>
    /\ output_json = FALSE
    /\ output_jsonl = FALSE
    /\ sample_limit = NoLimit
    /\ mpc = "load_metadata"
    /\ MergeFresh

\* merge_reviews_with_metadata has been called and is about to load the
\* metadata.
InitMerge ==
    /\ IngestIdle
    /\ ReadIdle
    /\ PipeIdle
    /\ metadata_file \in MergeMetaFiles
    /\ reviews_file \in FilesOf(MergeReviewLines, MaxReviews)
    /\ output_json \in BOOLEAN
    /\ output_jsonl \in BOOLEAN
    /\ sample_limit \in {NoLimit} \cup {Limit(n) : n \in 0..MaxLimit}
    /\ mpc = "load_metadata"
    /\ MergeFresh

\* meta_index = load_metadata(metadata_jsonl): the index, or the exception.
LoadMetadataCall ==
    /\ mpc = "load_metadata"
    /\ LET r == LoadMetadata(metadata_file) IN
        /\ meta_index' = IF r.raised THEN meta_index ELSE r.index
        /\ merge_exc' = IF r.raised THEN "metadata" ELSE None
        /\ mpc' = IF r.raised THEN "raised" ELSE "loaded"
    /\ UNCHANGED <<metadata_file, reviews_file, output_json, output_jsonl,
                   sample_limit, rev_pos, reviews_read, record, merged_records,
                   processed_count, skipped_count, jsonl_fp, jsonl_lines,
                   json_array, merge_result>>
    /\ UNCHANGED <<ingestVars, readVars, pipeVars>>

NextMeta == LoadMetadataCall

SpecMeta == InitMeta /\ [][NextMeta]_vars

\* -------------------------------------------- merge_reviews_with_metadata

\* try: if output_jsonl: jsonl_fp = output_jsonl.open("w")
MergeOpen ==
    /\ mpc = "loaded"
    /\ jsonl_fp' = IF output_jsonl THEN "open" ELSE None
    /\ mpc' = "loop"
    /\ UNCHANGED <<metadata_file, reviews_file, output_json, output_jsonl,
                   sample_limit, meta_index, rev_pos, reviews_read, record,
                   merged_records, processed_count, skipped_count, jsonl_lines,
                   json_array, merge_exc, merge_result>>
    /\ UNCHANGED <<ingestVars, readVars, pipeVars>>

\* output_jsonl.open raises: jsonl_fp stays None.
MergeOpenFail ==
    /\ mpc = "loaded"
    /\ output_jsonl
    /\ merge_exc' = "open"
    /\ mpc' = "finally"
    /\ UNCHANGED <<metadata_file, reviews_file, output_json, output_jsonl,
                   sample_limit, meta_index, rev_pos, reviews_read, record,
                   merged_records, processed_count, skipped_count, jsonl_fp,
                   jsonl_lines, json_array, merge_result>>
    /\ UNCHANGED <<ingestVars, readVars, pipeVars>>

\* The reader reaches the end of the reviews file: the for loop ends.
MergeReadEnd ==
    /\ mpc = "loop"
    /\ NextYield(reviews_file, rev_pos) = 0
    /\ rev_pos' = Len(reviews_file)
    /\ mpc' = "finally"
    /\ UNCHANGED <<metadata_file, reviews_file, output_json, output_jsonl,
                   sample_limit, meta_index, reviews_read, record,
                   merged_records, processed_count, skipped_count, jsonl_fp,
                   jsonl_lines, json_array, merge_exc, merge_result>>
    /\ UNCHANGED <<ingestVars, readVars, pipeVars>>

\* The reviews file cannot be opened or read on: the reader raises.
MergeReadFail ==
    /\ mpc = "loop"
    /\ merge_exc' = "read"
    /\ mpc' = "finally"
    /\ UNCHANGED <<metadata_file, reviews_file, output_json, output_jsonl,
                   sample_limit, meta_index, rev_pos, reviews_read, record,
                   merged_records, processed_count, skipped_count, jsonl_fp,
                   jsonl_lines, json_array, merge_result>>
    /\ UNCHANGED <<ingestVars, readVars, pipeVars>>

\* The review the reader yields next.
NextReview == Parsed(reviews_file, NextYield(reviews_file, rev_pos))

\* The reader yields a review: enumerate counts it.
Consume ==
    /\ mpc = "loop"
    /\ NextYield(reviews_file, rev_pos) # 0
    /\ rev_pos' = NextYield(reviews_file, rev_pos)
    /\ reviews_read' = reviews_read + 1

\* The review is no object: review.get raises.
MergeBadReview ==
    /\ Consume
    /\ NextReview.kind = "nonobj"
    /\ merge_exc' = "review"
    /\ mpc' = "finally"
    /\ UNCHANGED <<metadata_file, reviews_file, output_json, output_jsonl,
                   sample_limit, meta_index, record, merged_records,
                   processed_count, skipped_count, jsonl_fp, jsonl_lines,
                   json_array, merge_result>>
    /\ UNCHANGED <<ingestVars, readVars, pipeVars>>

\* if not asin: skipped_count += 1; continue
MergeSkipNoAsinUncounted ==
    /\ Consume
    /\ NextReview.kind = "obj"
    /\ ~Truthy(NextReview.asin)
    /\ UNCHANGED <<metadata_file, reviews_file, output_json, output_jsonl,
                   sample_limit, mpc, meta_index, record, merged_records,
                   processed_count, skipped_count, jsonl_fp, jsonl_lines, json_array,
                   merge_exc, merge_result>>
    /\ UNCHANGED <<ingestVars, readVars, pipeVars>>

MergeSkipNoAsin ==
    /\ Consume
    /\ NextReview.kind = "obj"
    /\ ~Truthy(NextReview.asin)
    /\ skipped_count' = skipped_count + 1
    /\ UNCHANGED <<metadata_file, reviews_file, output_json, output_jsonl,
                   sample_limit, mpc, meta_index, record, merged_records,
                   processed_count, jsonl_fp, jsonl_lines, json_array,
                   merge_exc, merge_result>>
    /\ UNCHANGED <<ingestVars, readVars, pipeVars>>

\* meta = meta_index.get(asin); if not meta: skipped_count += 1; continue
MergeSkipNoMeta ==
    /\ Consume
    /\ NextReview.kind = "obj"
    /\ Truthy(NextReview.asin)
    /\ NextReview.asin \notin DOMAIN meta_index
    /\ skipped_count' = skipped_count + 1
    /\ UNCHANGED <<metadata_file, reviews_file, output_json, output_jsonl,
                   sample_limit, mpc, meta_index, record, merged_records,
                   processed_count, jsonl_fp, jsonl_lines, json_array,
                   merge_exc, merge_result>>
    /\ UNCHANGED <<ingestVars, readVars, pipeVars>>

\* The review joins.
Joins(review) ==
    /\ review.kind = "obj"
    /\ Truthy(review.asin)
    /\ review.asin \in DOMAIN meta_index

\* json.dumps(record, ensure_ascii=False) + "\n"
JsonLine(r) == [json |-> r, newline |-> TRUE]

\* record = build_merged_record(review, meta), written to the sink if one is
\* open.
MergeWriteDeferred ==
    /\ Consume
    /\ Joins(NextReview)
    /\ record' = BuildMergedRecord(NextReview, meta_index[NextReview.asin])
    /\ mpc' = "append"
    /\ UNCHANGED <<metadata_file, reviews_file, output_json, output_jsonl,
                   sample_limit, meta_index, merged_records, processed_count,
                   skipped_count, jsonl_fp, jsonl_lines, json_array, merge_exc,
                   merge_result>>
    /\ UNCHANGED <<ingestVars, readVars, pipeVars>>

MergeWrite ==
    /\ Consume
    /\ Joins(NextReview)
    /\ record' = BuildMergedRecord(NextReview, meta_index[NextReview.asin])
    /\ jsonl_lines' = IF jsonl_fp = "open"
                      THEN Append(jsonl_lines, JsonLine(record'))
                      ELSE jsonl_lines
    /\ mpc' = "append"
    /\ UNCHANGED <<metadata_file, reviews_file, output_json, output_jsonl,
                   sample_limit, meta_index, merged_records, processed_count,
                   skipped_count, jsonl_fp, json_array, merge_exc, merge_result>>
    /\ UNCHANGED <<ingestVars, readVars, pipeVars>>

\* jsonl_fp.write raises.
MergeWriteFail ==
    /\ Consume
    /\ Joins(NextReview)
    /\ jsonl_fp = "open"
    /\ record' = BuildMergedRecord(NextReview, meta_index[NextReview.asin])
    /\ merge_exc' = "write"
    /\ mpc' = "finally"
    /\ UNCHANGED <<metadata_file, reviews_file, output_json, output_jsonl,
                   sample_limit, meta_index, merged_records, processed_count,
                   skipped_count, jsonl_fp, jsonl_lines, json_array,
                   merge_result>>
    /\ UNCHANGED <<ingestVars, readVars, pipeVars>>

\* merged_records.append(record); processed_count += 1; break at the limit.
MergeAppend ==
    /\ mpc = "append"
    /\ merged_records' = Append(merged_records, record)
    /\ processed_count' = processed_count + 1
    /\ record' = None
    /\ mpc' = IF LimitReached(sample_limit, merged_records')
              THEN "finally" ELSE "loop"
    /\ UNCHANGED <<metadata_file, reviews_file, output_json, output_jsonl,
                   sample_limit, meta_index, rev_pos, reviews_read,
                   skipped_count, jsonl_fp, jsonl_lines, json_array, merge_exc,
                   merge_result>>
    /\ UNCHANGED <<ingestVars, readVars, pipeVars>>

\* finally: if jsonl_fp: jsonl_fp.close(); then the exception goes on, if any.
MergeFinallyNoClose ==
    /\ mpc = "finally"
    /\ jsonl_fp' = IF jsonl_fp = "open" /\ merge_exc = None THEN "closed" ELSE jsonl_fp
    /\ mpc' = IF merge_exc = None THEN "write_json" ELSE "raised"
    /\ UNCHANGED <<metadata_file, reviews_file, output_json, output_jsonl,
                   sample_limit, meta_index, rev_pos, reviews_read, record,
                   merged_records, processed_count, skipped_count, jsonl_lines,
                   json_array, merge_exc, merge_result>>
    /\ UNCHANGED <<ingestVars, readVars, pipeVars>>

MergeFinally ==
    /\ mpc = "finally"
    /\ jsonl_fp' = IF jsonl_fp = "open" THEN "closed" ELSE jsonl_fp
    /\ mpc' = IF merge_exc = None THEN "write_json" ELSE "raised"
    /\ UNCHANGED <<metadata_file, reviews_file, output_json, output_jsonl,
                   sample_limit, meta_index, rev_pos, reviews_read, record,
                   merged_records, processed_count, skipped_count, jsonl_lines,
                   json_array, merge_exc, merge_result>>
    /\ UNCHANGED <<ingestVars, readVars, pipeVars>>

\* if output_json: json.dump(merged_records, f); return merged_records
MergeReturn ==
    /\ mpc = "write_json"
    /\ json_array' = IF output_json THEN Returned(merged_records) ELSE json_array
    /\ merge_result' = Returned(merged_records)
    /\ mpc' = "done"
    /\ UNCHANGED <<metadata_file, reviews_file, output_json, output_jsonl,
                   sample_limit, meta_index, rev_pos, reviews_read, record,
                   merged_records, processed_count, skipped_count, jsonl_fp,
                   jsonl_lines, merge_exc>>
    /\ UNCHANGED <<ingestVars, readVars, pipeVars>>

\* Opening or writing the JSON array file raises.
MergeJsonFail ==
    /\ mpc = "write_json"
    /\ output_json
    /\ merge_exc' = "json"
    /\ mpc' = "raised"
    /\ UNCHANGED <<metadata_file, reviews_file, output_json, output_jsonl,
                   sample_limit, meta_index, rev_pos, reviews_read, record,
                   merged_records, processed_count, skipped_count, jsonl_fp,
                   jsonl_lines, json_array, merge_result>>
    /\ UNCHANGED <<ingestVars, readVars, pipeVars>>

NextMerge ==
    \/ LoadMetadataCall
    \/ MergeOpen
    \/ MergeOpenFail
    \/ MergeReadEnd
    \/ MergeReadFail
    \/ MergeBadReview
    \/ MergeSkipNoAsin
    \/ MergeSkipNoMeta
    \/ MergeWrite
    \/ MergeWriteFail
    \/ MergeAppend
    \/ MergeFinally
    \/ MergeReturn
    \/ MergeJsonFail

SpecMerge == InitMerge /\ [][NextMerge]_vars

\* ------------------------------------------------------------ read_jsonl

\* read_jsonl is about to be run over a file.
InitRead ==
    /\ IngestIdle
    /\ MergeIdle
    /\ PipeIdle
    /\ read_file \in FilesOf(ReviewLines, MaxReadLines)
    /\ read_pc = "reading"
    /\ read_yielded = <<>>
    /\ read_warnings = <<>>

\* The caller exhausts the generator.
ReadJsonlCall ==
    /\ read_pc = "reading"
    /\ read_yielded' = ReadJsonl(read_file)
    /\ read_warnings' = Warnings(read_file)
    /\ read_pc' = "done"
    /\ UNCHANGED read_file
    /\ UNCHANGED <<ingestVars, mergeVars, pipeVars>>

NextRead == ReadJsonlCall

SpecRead == InitRead /\ [][NextRead]_vars

\* ------------------------------------- DataIngestion.__init__, load_jsonl

\* __init__ has read the environment and the configuration and is about to
\* call load_jsonl.
InitLoad ==
    /\ IngestIdle
    /\ MergeIdle
    /\ ReadIdle
    /\ jsonl_input \in FilesOf(LoadLines, MaxLoadLines)
    /\ di_pc = "load_jsonl"
    /\ product_data = <<>>
    /\ ingestion_limit = NoLimit
    /\ shuffle = FALSE
    /\ TransformFresh

\* self.product_data = self.load_jsonl(), or the exception leaves __init__.
LoadJsonlCall ==
    /\ di_pc = "load_jsonl"
    /\ LET r == LoadJsonl(jsonl_input) IN
        /\ product_data' = IF r.raised THEN product_data ELSE r.rows
        /\ di_pc' = IF r.raised THEN "raised" ELSE "loaded"
    /\ UNCHANGED <<jsonl_input, ingestion_limit, shuffle, shuffled, data,
                   empty_skipped, t_documents>>
    /\ UNCHANGED <<ingestVars, mergeVars, readVars>>

\* The row count is logged and __init__ returns.
InitLogged ==
    /\ di_pc = "loaded"
    /\ di_pc' = "constructed"
    /\ UNCHANGED <<jsonl_input, product_data, ingestion_limit, shuffle,
                   shuffled, data, empty_skipped, t_documents>>
    /\ UNCHANGED <<ingestVars, mergeVars, readVars>>

NextLoad ==
    \/ LoadJsonlCall
    \/ InitLogged

SpecLoad == InitLoad /\ [][NextLoad]_vars

\* ------------------------------------------------ DataIngestion.transform

\* The rows product_data may hold: JSON objects with a title and a text.
Rows(n) == {[i \in 1..n |-> Entry(i, t[i], x[i])] :
                t \in [1..n -> TitleValues], x \in [1..n -> TextValues]}

\* The pipeline is constructed and transform is about to be called.
InitTransform ==
    /\ IngestIdle
    /\ MergeIdle
    /\ ReadIdle
    /\ jsonl_input = <<>>
    /\ di_pc = "constructed"
    /\ \E n \in 0..MaxEntries : product_data \in Rows(n)
    /\ ingestion_limit \in {NoLimit} \cup {Limit(n) : n \in 0..MaxLimit}
    /\ shuffle \in BOOLEAN
    /\ TransformFresh

\* transform, from data = list(self.product_data) to return documents.
Transform ==
    /\ di_pc = "constructed"
    /\ \E f \in Orders(Len(product_data)) :
          /\ shuffle \/ f = [i \in 1..Len(product_data) |-> i]
          /\ shuffled' = Reordered(product_data, f)
    /\ data' = Cap(shuffled', ingestion_limit)
    /\ empty_skipped' = EmptySkipped(data')
    /\ t_documents' = Returned(Documents(data'))
    /\ di_pc' = "done"
    /\ UNCHANGED <<jsonl_input, product_data, ingestion_limit, shuffle>>
    /\ UNCHANGED <<ingestVars, mergeVars, readVars>>

NextTransform == Transform

SpecTransform == InitTransform /\ [][NextTransform]_vars

\* ------------------------------------------------ properties of ingest

\* The add_documents calls made for the batch that starts at index s.
CallsOf(s) == {i \in 1..Len(calls) : calls[i].start = s}

FailsOf(s) == {i \in CallsOf(s) : ~calls[i].ok}

OksOf(s) == {i \in CallsOf(s) : calls[i].ok}

\* The durations of the sleeps made for the batch that starts at index s.
IsSleepOf(s, sl) == sl.start = s

SleepsOf(s) == LET Mine(sl) == IsSleepOf(s, sl)
                   mine == SelectSeq(sleeps, Mine)
               IN [j \in 1..Len(mine) |-> mine[j].dur]

BatchStarts == {calls[i].start : i \in 1..Len(calls)}

AllOk == \A i \in 1..Len(calls) : calls[i].ok

IsOk(c) == c.ok

OkCalls == SelectSeq(calls, IsOk)

\* C2: when no write fails, N documents and batch size B >= 1 give exactly
\* ceil(N/B) add_documents calls; the i-th call carries the i-th contiguous
\* slice of B documents, the concatenation of the batches is the input, every
\* batch but the last has size B, the last has size N mod B (or B when B
\* divides N), and N = 0 gives no call.
C2_BatchPartition ==
    AllOk =>
        LET N == Len(documents)
            B == batch_size
            n == Len(calls)
        IN /\ \A i \in 1..n :
                  calls[i].docs = SubSeq(documents, (i - 1) * B + 1, Min(i * B, N))
           /\ ing_pc = "RETURNED" =>
                  /\ n = CeilDiv(N, B)
                  /\ Flatten([i \in 1..n |-> calls[i].docs]) = documents
                  /\ \A i \in 1..(n - 1) : Len(calls[i].docs) = B
                  /\ n > 0 => Len(calls[n].docs) = IF N % B = 0 THEN B ELSE N % B
                  /\ N = 0 => n = 0

C2_Witness ==
    /\ ing_pc = "RETURNED"
    /\ AllOk
    /\ Len(calls) >= 2
    /\ Len(documents) % batch_size # 0

\* C3: a batch whose write fails k times and then succeeds (k <= max_retries)
\* was attempted exactly k+1 times and slept exactly k times; its first sleep
\* lasts the configured initial backoff and each later one min(2 x previous, 30).
C3_RetryThenSuccess ==
    \A s \in BatchStarts :
        OksOf(s) # {} =>
            LET k == Cardinality(FailsOf(s))
                sl == SleepsOf(s)
            IN /\ k <= max_retries
               /\ Cardinality(CallsOf(s)) = k + 1
               /\ Len(sl) = k
               /\ k >= 1 => sl[1] = backoff_initial_seconds
               /\ \A j \in 2..k : sl[j] = Min(2 * sl[j - 1], 30)

\* Two failures, then a success, with the second sleep double the first.
C3_Witness ==
    \E s \in BatchStarts :
        /\ OksOf(s) # {}
        /\ Cardinality(FailsOf(s)) = 2
        /\ Cardinality(CallsOf(s)) = 3
        /\ Len(SleepsOf(s)) = 2
        /\ SleepsOf(s)[1] > 0
        /\ SleepsOf(s)[2] = 2 * SleepsOf(s)[1]

\* C4: a failed write leads to FAILED exactly when the count of failed attempts
\* of the batch exceeds max_retries and to RETRY_WAIT otherwise: in FAILED the
\* batch has been written max_retries + 1 times, all failed, with max_retries
\* sleeps; in RETRY_WAIT the count is within the budget; and no batch with
\* more than max_retries failures is anywhere but in FAILED.
C4_FailedIffBudgetExceeded ==
    /\ ing_pc = "FAILED" =>
          /\ attempt = max_retries + 1
          /\ Cardinality(FailsOf(start_index)) = max_retries + 1
          /\ OksOf(start_index) = {}
          /\ Len(SleepsOf(start_index)) = max_retries
    /\ ing_pc = "RETRY_WAIT" =>
          /\ attempt <= max_retries
          /\ Cardinality(FailsOf(start_index)) = attempt
          /\ Len(SleepsOf(start_index)) = attempt - 1
    /\ \A s \in BatchStarts :
          Cardinality(FailsOf(s)) > max_retries =>
              (ing_pc = "FAILED" /\ s = start_index)

C4_Witness ==
    /\ ing_pc = "FAILED"
    /\ max_retries = 2
    /\ Cardinality(FailsOf(start_index)) = 3
    /\ Len(SleepsOf(start_index)) = 2

\* Some batch has used up its retry budget.
BudgetSpent == \E s \in BatchStarts : Cardinality(FailsOf(s)) > max_retries

\* C5: once a batch has reached FAILED the run is aborted: ingest stays
\* FAILED, the fatal attempt is the last add_documents call ever made (none
\* for that batch or a later one follows), nothing is returned to the caller
\* whatever ids were accumulated, and run does not end normally.
C5_AbortOnFailed ==
    BudgetSpent =>
        /\ ing_pc = "FAILED"
        /\ ~calls[Len(calls)].ok
        /\ calls[Len(calls)].start = start_index
        /\ \A i \in 1..Len(calls) : calls[i].start <= start_index
        /\ Cardinality(FailsOf(start_index)) = max_retries + 1
        /\ ingest_result = NoResult
        /\ run_pc \in {"ingest", "raised"}

\* The failure has left run, with ids of earlier batches accumulated and lost.
C5_Witness ==
    /\ ing_pc = "FAILED"
    /\ run_pc = "raised"
    /\ Len(inserted_ids) > 0
    /\ ingest_result = NoResult
    /\ start_index + batch_size < Len(documents)

\* C6: no sleep lasts longer than 30, whatever backoff_initial_seconds is, and
\* within a batch each sleep is double the one before, up to that cap.
C6_SleepCapped ==
    /\ \A i \in 1..Len(sleeps) : sleeps[i].dur <= 30
    /\ \A s \in BatchStarts :
          \A j \in 2..Len(SleepsOf(s)) :
              SleepsOf(s)[j] = Min(2 * SleepsOf(s)[j - 1], 30)

\* C7: the cumulative id list is the concatenation, in batch order, of the
\* ids returned by the successful calls; a batch succeeds at most once and in
\* batch order; what ingest returns is that list, covering every batch.
C7_IdsAreOkBatches ==
    /\ inserted_ids = Flatten([i \in 1..Len(OkCalls) |-> OkCalls[i].ids])
    /\ \A i \in 1..Len(OkCalls) : OkCalls[i].start = (i - 1) * batch_size
    /\ ing_pc = "RETURNED" =>
          /\ ingest_result = Returned(inserted_ids)
          /\ Len(OkCalls) = CeilDiv(Len(documents), batch_size)
          /\ Len(inserted_ids) = Len(documents)

C7_Witness ==
    /\ ing_pc = "RETURNED"
    /\ Len(OkCalls) >= 2
    /\ ~AllOk
    /\ Len(inserted_ids) = Len(documents)

\* ingest has returned or raised.
IngestEnded == ing_pc \in {"RETURNED", "FAILED"}

\* C17: ingest ends, returning the ids or raising, and by then and at every
\* point before it has made at most ceil(N/B) x (max_retries + 1)
\* add_documents calls, at most max_retries + 1 of them for any one batch.
C17_IngestTerminates ==
    /\ [](/\ Len(calls) <= CeilDiv(Len(documents), batch_size) * (max_retries + 1)
          /\ \A s \in BatchStarts : Cardinality(CallsOf(s)) <= max_retries + 1)
    /\ <>IngestEnded

\* The bound is met: every batch was written max_retries + 1 times.
C17_Witness ==
    /\ ing_pc = "FAILED"
    /\ max_retries >= 1
    /\ CeilDiv(Len(documents), batch_size) >= 2
    /\ Len(calls) = CeilDiv(Len(documents), batch_size) * (max_retries + 1)

\* C18: batches are written strictly in sequence: the calls of a batch are
\* consecutive, the first call of a batch other than the first directly
\* follows the successful call of the batch before it, and no call of a batch
\* follows its success. Every batch starts with attempt 0 and the configured
\* initial backoff: attempt counts the failures of the current batch alone,
\* and the first sleep of every batch lasts the initial backoff.
C18_SequentialFreshBatches ==
    /\ \A i \in 1..Len(calls) :
          IF i = 1 THEN calls[i].start = 0
          ELSE \/ /\ calls[i].start = calls[i - 1].start
                  /\ ~calls[i - 1].ok
               \/ /\ calls[i].start = calls[i - 1].start + batch_size
                  /\ calls[i - 1].ok
    /\ ing_pc \in {"ATTEMPTING", "RETRY_WAIT", "FAILED"} =>
          attempt = Cardinality(FailsOf(start_index))
    /\ (ing_pc = "ATTEMPTING" /\ CallsOf(start_index) = {}) =>
          (attempt = 0 /\ backoff = backoff_initial_seconds)
    /\ \A s \in BatchStarts :
          Len(SleepsOf(s)) >= 1 => SleepsOf(s)[1] = backoff_initial_seconds

\* A later batch is about to be tried for the first time, after an earlier
\* batch had used up all its retries and slept up to the doubled backoff.
C18_Witness ==
    /\ ing_pc = "ATTEMPTING"
    /\ start_index > 0
    /\ CallsOf(start_index) = {}
    /\ Cardinality(FailsOf(0)) = max_retries
    /\ max_retries >= 2
    /\ backoff_initial_seconds > 0
    /\ attempt = 0
    /\ backoff = backoff_initial_seconds

\* ---------------------------------------------- properties of read_jsonl

\* The lines of the file read that are neither blank nor malformed.
GoodLines == {n \in 1..Len(read_file) : read_file[n].kind \notin {"blank", "malformed"}}

BadLines == {n \in 1..Len(read_file) : read_file[n].kind = "malformed"}

\* C12: what read_jsonl yields is exactly the well-formed non-blank lines of
\* the file, each parsed, in file order, wherever malformed or blank lines
\* stand among them; it warns about exactly the malformed lines, in order,
\* and never about a blank one.
C12_ReadSkipsBadLines ==
    read_pc = "done" =>
        /\ {read_yielded[i].line : i \in 1..Len(read_yielded)} = GoodLines
        /\ Len(read_yielded) = Cardinality(GoodLines)
        /\ \A i, j \in 1..Len(read_yielded) :
               i < j => read_yielded[i].line < read_yielded[j].line
        /\ \A i \in 1..Len(read_yielded) :
               LET n == read_yielded[i].line
               IN /\ read_yielded[i].kind = read_file[n].kind
                  /\ read_yielded[i].asin = read_file[n].asin
        /\ {read_warnings[i] : i \in 1..Len(read_warnings)} = BadLines
        /\ Len(read_warnings) = Cardinality(BadLines)
        /\ \A i, j \in 1..Len(read_warnings) :
               i < j => read_warnings[i] < read_warnings[j]

\* A malformed line and a blank line precede an object, which is yielded.
C12_Witness ==
    /\ read_pc = "done"
    /\ Len(read_file) = 3
    /\ read_file[1].kind = "malformed"
    /\ read_file[2].kind = "blank"
    /\ read_file[3].kind = "obj"
    /\ Len(read_yielded) = 1
    /\ read_yielded[1].line = 3
    /\ read_warnings = <<1>>

\* ----------------------------- properties of load_jsonl and transform

\* C15: load_jsonl skips the malformed and the blank lines of the JSONL input
\* and loads the remaining entries, in order; the construction of the
\* pipeline is not aborted.
C15_MalformedLineSkipped ==
    /\ di_pc # "raised"
    /\ di_pc \in {"loaded", "constructed"} =>
          LET good == {n \in 1..Len(jsonl_input) : jsonl_input[n].kind = "obj"}
          IN /\ {product_data[i].src : i \in 1..Len(product_data)} = good
             /\ Len(product_data) = Cardinality(good)
             /\ \A i, j \in 1..Len(product_data) :
                    i < j => product_data[i].src < product_data[j].src

\* The field holds a character that is not whitespace.
HasInk(f) == ~f.null /\ \E i \in 1..Len(f.chars) : f.chars[i] \notin {" ", "\n"}

\* C11: every document transform returns has a page_content that is not
\* empty and neither starts nor ends with whitespace, and the documents come
\* from exactly the considered entries whose title or text holds something
\* other than whitespace: an entry with nothing to embed is never a document.
C11_NonEmptyContent ==
    di_pc = "done" =>
        LET docs == t_documents.value
        IN /\ \A i \in 1..Len(docs) :
                  /\ docs[i].page_content # <<>>
                  /\ docs[i].page_content[1] \notin {" ", "\n"}
                  /\ docs[i].page_content[Len(docs[i].page_content)] \notin {" ", "\n"}
           /\ {docs[i].src : i \in 1..Len(docs)}
                  = {data[i].src : i \in {j \in 1..Len(data) :
                                             HasInk(data[j].title) \/ HasInk(data[j].text)}}

\* Some entries had nothing to embed, one had, under shuffle and a limit.
C11_Witness ==
    /\ di_pc = "done"
    /\ shuffle
    /\ ingestion_limit = Limit(2)
    /\ Len(product_data) = 3
    /\ empty_skipped = 1
    /\ Len(t_documents.value) = 1
    /\ \E i \in 1..Len(data) :
           data[i].title = Str(<<" ">>) /\ data[i].text = Str(<<" ">>)

\* C16: transform considers the first min(limit, N) entries of the shuffled
\* list when the limit is a positive integer and all N otherwise; the
\* shuffled list is a reordering of all N entries (the cap comes after the
\* shuffle); documents + empty_skipped is the number considered; the
\* documents follow the order of the entries considered, which without
\* shuffle is the order of product_data.
C16_CapAfterShuffle ==
    di_pc = "done" =>
        LET N == Len(product_data)
            docs == t_documents.value
            considered == IF ingestion_limit.set /\ ingestion_limit.value > 0
                          THEN Min(ingestion_limit.value, N) ELSE N
        IN /\ Len(shuffled) = N
           /\ {shuffled[i] : i \in 1..N} = {product_data[i] : i \in 1..N}
           /\ Len(data) = considered
           /\ \A i \in 1..considered : data[i] = shuffled[i]
           /\ Len(docs) + empty_skipped = considered
           /\ \A i, j \in 1..Len(docs) :
                  i < j => \E k, l \in 1..Len(data) :
                               /\ k < l
                               /\ data[k].src = docs[i].src
                               /\ data[l].src = docs[j].src
           /\ ~shuffle =>
                  /\ shuffled = product_data
                  /\ \A i, j \in 1..Len(docs) : i < j => docs[i].src < docs[j].src

\* Under shuffle and a limit of 1 the one entry considered is the last entry
\* of product_data.
C16_Witness ==
    /\ di_pc = "done"
    /\ shuffle
    /\ ingestion_limit = Limit(1)
    /\ Len(product_data) = 3
    /\ Len(data) = 1
    /\ data[1].src = 3
    /\ Len(t_documents.value) + empty_skipped = 1


\* ------------------------------------------- properties of load_metadata

\* The lines of the metadata file that carry the identifier id.
Carriers(id) ==
    {n \in 1..Len(metadata_file) :
        /\ metadata_file[n].kind = "obj"
        /\ (IF Truthy(metadata_file[n].parent_asin)
            THEN metadata_file[n].parent_asin
            ELSE metadata_file[n].asin) = id}

LastOf(S) == CHOOSE n \in S : \A m \in S : m <= n

\* C10: after load_metadata the index holds exactly the identifiers some
\* record of the stream carries, each mapped to the last record that carries
\* it, however many earlier ones there are; its size is the number of
\* distinct identifiers.
C10_LastWins ==
    mpc = "loaded" =>
        /\ DOMAIN meta_index = {id \in Ids : Carriers(id) # {}}
        /\ \A id \in DOMAIN meta_index :
               meta_index[id].line = LastOf(Carriers(id))
        /\ Cardinality(DOMAIN meta_index)
               = Cardinality({id \in Ids : Carriers(id) # {}})

\* Three records share one identifier and the third is the one indexed.
C10_Witness ==
    /\ mpc = "loaded"
    /\ \E id \in DOMAIN meta_index :
           /\ Cardinality(Carriers(id)) = 3
           /\ meta_index[id].line = 3

\* An identifier value that counts as missing: absent, null or empty.
Missing(v) == v \in {None, ""}

\* C13: after load_metadata every record with a parent_asin is indexed under
\* its parent_asin, every record without one under its asin, and a record
\* with neither under nothing; every entry of the index is a record keyed
\* that way; and a lookup of asin A never yields a record that carries a
\* parent_asin other than A. (A null or empty value counts as missing.)
C13_KeyPolicy ==
    mpc = "loaded" =>
        /\ \A n \in 1..Len(metadata_file) :
               metadata_file[n].kind = "obj" =>
                   LET p == metadata_file[n].parent_asin
                       a == metadata_file[n].asin
                   IN /\ ~Missing(p) => p \in DOMAIN meta_index
                      /\ (Missing(p) /\ ~Missing(a)) => a \in DOMAIN meta_index
                      /\ (~Missing(p) /\ a # p /\ a \in DOMAIN meta_index)
                             => meta_index[a].line # n
        /\ \A id \in DOMAIN meta_index :
               LET m == meta_index[id]
               IN /\ m.kind = "obj"
                  /\ IF Missing(m.parent_asin) THEN m.asin = id
                     ELSE m.parent_asin = id

\* A record with parent_asin A1 and asin A2 is indexed, and A2 resolves to
\* nothing.
C13_Witness ==
    /\ mpc = "loaded"
    /\ \E n \in 1..Len(metadata_file) :
           /\ metadata_file[n] = Line("obj", "A1", "A2")
           /\ meta_index["A1"].line = n
    /\ "A2" \notin DOMAIN meta_index

\* ----------------------------------------------- properties of the merge

\* The lines of the reviews file, among the first upTo, that hold an object.
ReviewObjects(upTo) ==
    {n \in 1..upTo : reviews_file[n].kind = "obj"}

\* Reviews without an asin, with an asin the index lacks, and joinable ones.
NoAsin(upTo) ==
    {n \in ReviewObjects(upTo) : reviews_file[n].asin \in {None, ""}}

NoMatch(upTo) ==
    {n \in ReviewObjects(upTo) \ NoAsin(upTo) :
        reviews_file[n].asin \notin DOMAIN meta_index}

JoinableReviews(upTo) == (ReviewObjects(upTo) \ NoAsin(upTo)) \ NoMatch(upTo)

\* A review has been yielded and is not yet counted: its record awaits the
\* append, or handling it raised.
InHand == mpc = "append" \/ merge_exc \in {"review", "write"}

\* C1: whenever every review consumed from the reader has been handled, and
\* so at the end of the input and at an early stop, processed_count +
\* skipped_count is the number of reviews consumed, and the number of merged
\* records is that number less the reviews without asin and less the reviews
\* without a metadata match.
C1_CountsAddUp ==
    (mpc \in {"loop", "finally", "write_json", "done"} /\ ~InHand) =>
        /\ processed_count + skipped_count = reviews_read
        /\ Len(merged_records) = reviews_read - Cardinality(NoAsin(rev_pos))
                                              - Cardinality(NoMatch(rev_pos))
        /\ processed_count = Len(merged_records)

C1_Witness ==
    /\ mpc = "done"
    /\ reviews_read = 3
    /\ processed_count = 1
    /\ Cardinality(NoAsin(rev_pos)) = 1
    /\ Cardinality(NoMatch(rev_pos)) = 1

\* C8: with a sample limit L >= 0 the merge returns, without error, exactly
\* min(L, number of joinable reviews) records, and the review whose record
\* brought the count to L is the last one read and counted.
C8_SampleLimit ==
    (mpc = "done" /\ sample_limit.set) =>
        LET L == sample_limit.value
            all == JoinableReviews(Len(reviews_file))
        IN /\ Len(merge_result.value) = Min(L, Cardinality(all))
           /\ \A n \in all :
                  Cardinality(JoinableReviews(n)) = L =>
                      /\ rev_pos = n
                      /\ reviews_read = Cardinality({m \in 1..n :
                                             reviews_file[m].kind # "malformed"})

\* The merge has left its try statement.
Exited == mpc \in {"write_json", "done", "raised"}

\* C9: once the merge loop is left, by the end of the input, by the sample
\* limit or by an exception, the sink is not open, and it is closed if it was
\* ever opened; after a write failure on the sink the exception is on its way
\* out, nothing is returned and the JSON array file is not written.
C9_SinkClosed ==
    /\ Exited =>
          /\ jsonl_fp # "open"
          /\ (output_jsonl /\ merge_exc \notin {"metadata", "open"})
                 => jsonl_fp = "closed"
    /\ merge_exc = "write" =>
          /\ mpc \in {"finally", "raised"}
          /\ merge_result = NoResult
          /\ json_array = NoResult

\* A write to the sink failed after an earlier record had been written, and
\* the exception has left the merge with the sink closed.
C9_Witness ==
    /\ mpc = "raised"
    /\ merge_exc = "write"
    /\ jsonl_fp = "closed"
    /\ Len(jsonl_lines) >= 1
    /\ output_json

\* The sink was opened (it may have been closed since).
SinkOpened == jsonl_fp # None

\* C14: the i-th merged record comes from the i-th joinable review read, so
\* the list is in review arrival order and it is the list returned. With the
\* sink, every record is written as one line before the next review is read:
\* the sink holds the lines of the accumulated records in their order, plus,
\* only while a record awaits its append, the line of that record.
C14_OrderAndStreaming ==
    /\ \A i \in 1..Len(merged_records) :
          /\ merged_records[i].review \in JoinableReviews(rev_pos)
          /\ Cardinality(JoinableReviews(merged_records[i].review)) = i
    /\ mpc = "done" => merge_result = Returned(merged_records)
    /\ ~SinkOpened => jsonl_lines = <<>>
    /\ SinkOpened =>
          /\ Len(jsonl_lines) = Len(merged_records) + (IF mpc = "append" THEN 1 ELSE 0)
          /\ \A i \in 1..Len(merged_records) :
                 jsonl_lines[i] = JsonLine(merged_records[i])
          /\ mpc = "append" =>
                 jsonl_lines[Len(jsonl_lines)].json.review = rev_pos
          /\ mpc = "loop" =>
                 Len(jsonl_lines) = Cardinality(JoinableReviews(rev_pos))

\* The second record is on the sink and not yet in the list.
C14_Witness ==
    /\ mpc = "append"
    /\ SinkOpened
    /\ Len(merged_records) = 1
    /\ Len(jsonl_lines) = 2
    /\ merged_records[1].review < jsonl_lines[2].json.review
    /\ jsonl_lines[1] = JsonLine(merged_records[1])

====
